---------------------------- MODULE Spec2Model ----------------------------
(***************************************************************************)
(* The CSS selector builder of src/src/05-objects-tasks.js.                *)
(*                                                                         *)
(* A JavaScript string is a sequence of one-character strings, so that     *)
(* String.prototype.includes and the template literals are computed and    *)
(* not assumed.  The objects created by `new CssClass(...)` live in        *)
(* `heap`; a fragment's identity is its index in the heap.                 *)
(***************************************************************************)
EXTENDS Integers, Sequences, FiniteSets, TLC

VARIABLES
  heap,   \* the CssClass objects created so far: Seq([value, elem])
  hist,   \* per object, how it was built: the calls that led to it
  last    \* the most recent call and its outcome

vars == <<heap, hist, last>>

\* Number of CssClass objects the model lets the program create.
MaxFrags == 3

\* Argument strings of the calls: a plain name and names holding the
\* characters the validation searches for.
Values == { <<"a">>, <<"#", ":">> }

\* The combinators of the doc comment, line 71.
Combinators == { <<" ">>, <<"+">>, <<"~">>, <<">">> }

NoErr == "none"
\* this.err1, the duplicate-segment message
Err1 == "Element, id and pseudo-element should not occur more then one time inside the selector"
\* this.err2, the segment-order message
Err2 == "Selector parts should be arranged in the following order: element, id, class, attribute, pseudo-class, pseudo-element"

Null == [value |-> <<>>, elem |-> FALSE, null |-> TRUE]

---------------------------------------------------------------------------
(* JavaScript primitives used by the class *)

\* String.prototype.includes(sub)
includes(s, sub) ==
  \E i \in 1..(Len(s) - Len(sub) + 1) : SubSeq(s, i, i + Len(sub) - 1) = sub

\* truthiness of a string: the empty string is falsy
Truthy(s) == Len(s) > 0

\* the outcome of a method call: what it throws, what it returns, and the
\* receiver as the call leaves it
Return(this, obj) == [err |-> NoErr, obj |-> obj, this |-> this]
Throw(this, e) == [err |-> e, obj |-> Null, this |-> this]

---------------------------------------------------------------------------
(* class CssClass *)

\* constructor(value, el = false)
CssClass(value, el) == [value |-> value, elem |-> el]

\* the default of the constructor's second parameter
DefaultEl == FALSE

\* element() that does not look at the text already accumulated
CssClass_element_NoOrderCheck(this, val) ==
  IF this.elem THEN Throw(this, Err1)
  ELSE Return(this, CssClass(this.value \o val, this.elem))

CssClass_element(this, val) ==
  IF this.elem THEN Throw(this, Err1)
  ELSE IF Truthy(this.value) THEN Throw(this, Err2)
  ELSE Return(this, CssClass(this.value \o val, this.elem))

\* id() that validates the order before the uniqueness
CssClass_id_OrderFirst(this, val) ==
  IF \/ includes(this.value, <<".">>)
     \/ includes(this.value, <<"[">>)
     \/ includes(this.value, <<":">>)
     \/ includes(this.value, <<":", ":">>)
  THEN Throw(this, Err2)
  ELSE IF includes(this.value, <<"#">>) THEN Throw(this, Err1)
  ELSE Return(this, CssClass(this.value \o <<"#">> \o val, this.elem))

\* id() that forgets to hand the flag to the new object
CssClass_id_DropsFlag(this, val) ==
  IF includes(this.value, <<"#">>) THEN Throw(this, Err1)
  ELSE IF \/ includes(this.value, <<".">>)
          \/ includes(this.value, <<"[">>)
          \/ includes(this.value, <<":">>)
          \/ includes(this.value, <<":", ":">>)
       THEN Throw(this, Err2)
  ELSE Return(this, CssClass(this.value \o <<"#">> \o val, DefaultEl))

CssClass_id(this, val) ==
  IF includes(this.value, <<"#">>) THEN Throw(this, Err1)
  ELSE IF \/ includes(this.value, <<".">>)
          \/ includes(this.value, <<"[">>)
          \/ includes(this.value, <<":">>)
          \/ includes(this.value, <<":", ":">>)
       THEN Throw(this, Err2)
  ELSE Return(this, CssClass(this.value \o <<"#">> \o val, this.elem))

\* class() that does not look for an attribute segment
CssClass_class_NoAttrCheck(this, val) ==
  IF \/ includes(this.value, <<":">>)
     \/ includes(this.value, <<":", ":">>)
  THEN Throw(this, Err2)
  ELSE Return(this, CssClass(this.value \o <<".">> \o val, this.elem))

CssClass_class(this, val) ==
  IF \/ includes(this.value, <<"[">>)
     \/ includes(this.value, <<":">>)
     \/ includes(this.value, <<":", ":">>)
  THEN Throw(this, Err2)
  ELSE Return(this, CssClass(this.value \o <<".">> \o val, this.elem))

\* attr() that also writes the new text into the receiver
CssClass_attr_InPlace(this, val) ==
  IF \/ includes(this.value, <<":">>)
     \/ includes(this.value, <<":", ":">>)
  THEN Throw(this, Err2)
  ELSE LET text == this.value \o <<"[">> \o val \o <<"]">> IN
       Return([this EXCEPT !.value = text], CssClass(text, this.elem))

CssClass_attr(this, val) ==
  IF \/ includes(this.value, <<":">>)
     \/ includes(this.value, <<":", ":">>)
  THEN Throw(this, Err2)
  ELSE Return(this, CssClass(this.value \o <<"[">> \o val \o <<"]">>, this.elem))

\* pseudoClass() that reports the wrong message
CssClass_pseudoClass_Err1(this, val) ==
  IF includes(this.value, <<":", ":">>) THEN Throw(this, Err1)
  ELSE Return(this, CssClass(this.value \o <<":">> \o val, this.elem))

CssClass_pseudoClass(this, val) ==
  IF includes(this.value, <<":", ":">>) THEN Throw(this, Err2)
  ELSE Return(this, CssClass(this.value \o <<":">> \o val, this.elem))

\* pseudoElement() that appends to the receiver before it validates
CssClass_pseudoElement_WriteFirst(this, val) ==
  LET text == this.value \o <<":", ":">> \o val IN
  IF includes(this.value, <<":", ":">>)
  THEN Throw([this EXCEPT !.value = text], Err1)
  ELSE Return(this, CssClass(text, this.elem))

CssClass_pseudoElement(this, val) ==
  IF includes(this.value, <<":", ":">>) THEN Throw(this, Err1)
  ELSE Return(this, CssClass(this.value \o <<":", ":">> \o val, this.elem))

stringify(this) == this.value

\* stringify() that hands the text out and starts the receiver afresh
CssClass_stringify_Resets(this) ==
  [out |-> stringify(this), this |-> [this EXCEPT !.value = <<>>]]

\* a call of stringify(): the string returned, and the receiver as the call
\* leaves it
CssClass_stringify(this) == [out |-> stringify(this), this |-> this]

---------------------------------------------------------------------------
(* const cssSelectorBuilder *)

cssSelectorBuilder_element(value) == CssClass(value, TRUE)

\* the id starter without its prefix
cssSelectorBuilder_id_NoHash(value) == CssClass(value, DefaultEl)

cssSelectorBuilder_id(value) == CssClass(<<"#">> \o value, DefaultEl)

cssSelectorBuilder_class(value) == CssClass(<<".">> \o value, DefaultEl)

cssSelectorBuilder_attr(value) == CssClass(<<"[">> \o value \o <<"]">>, DefaultEl)

cssSelectorBuilder_pseudoClass(value) == CssClass(<<":">> \o value, DefaultEl)

\* the pseudoElement starter that sets the flag
cssSelectorBuilder_pseudoElement_SetsFlag(value) == CssClass(<<":", ":">> \o value, TRUE)

cssSelectorBuilder_pseudoElement(value) == CssClass(<<":", ":">> \o value, DefaultEl)

\* combine that joins with a single space for the descendant combinator
cssSelectorBuilder_combine_Descendant(selector1, combine, selector2) ==
  IF combine = <<" ">>
  THEN CssClass(stringify(selector1) \o <<" ">> \o stringify(selector2), DefaultEl)
  ELSE CssClass(stringify(selector1) \o <<" ">> \o combine \o <<" ">>
                  \o stringify(selector2), DefaultEl)

\* combine that hands on the flag of its left operand
cssSelectorBuilder_combine_KeepsFlag(selector1, combine, selector2) ==
  CssClass(stringify(selector1) \o <<" ">> \o combine \o <<" ">> \o stringify(selector2),
           selector1.elem)

cssSelectorBuilder_combine(selector1, combine, selector2) ==
  CssClass(stringify(selector1) \o <<" ">> \o combine \o <<" ">> \o stringify(selector2),
           DefaultEl)

---------------------------------------------------------------------------
(* The calls a program makes, and the record kept of them *)

Frags == 1..Len(heap)

Seg(cat, val) == [cat |-> cat, val |-> val]

\* how an object came to be: the segments of its chain in call order, the
\* receiver it was chained from (0: none), and for the result of combine the
\* operands and the combinator
Built(segs, parent, comb, left, op, right) ==
  [segs |-> segs, parent |-> parent, comb |-> comb,
   left |-> left, op |-> op, right |-> right]

\* the record of a call: the method, the receiver (0 for the facade; the left
\* operand for combine), the right operand of combine, the error thrown, the
\* object returned (0 when it threw) and the string returned by stringify
Call(op, target, right, err, ret, out) ==
  [op |-> op, target |-> target, right |-> right, err |-> err, ret |-> ret,
   out |-> out]

Init ==
  /\ heap = <<>>
  /\ hist = <<>>
  /\ last = Call("none", 0, 0, NoErr, 0, <<>>)

\* builder.<cat>(value): a facade starter
Start(cat, obj, value) ==
  /\ Len(heap) < MaxFrags
  /\ heap' = Append(heap, obj)
  /\ hist' = Append(hist, Built(<<Seg(cat, value)>>, 0, FALSE, 0, <<>>, 0))
  /\ last' = Call(cat, 0, 0, NoErr, Len(heap) + 1, <<>>)

\* f.<cat>(val): a chained call on the object heap[f], r its outcome
Chain(cat, f, val, r) ==
  /\ r.err = NoErr => Len(heap) < MaxFrags
  /\ LET h == [heap EXCEPT ![f] = r.this] IN
     heap' = IF r.err = NoErr THEN Append(h, r.obj) ELSE h
  /\ hist' = IF r.err = NoErr
             THEN Append(hist, Built(Append(hist[f].segs, Seg(cat, val)), f,
                                     hist[f].comb, 0, <<>>, 0))
             ELSE hist
  /\ last' = Call(cat, f, 0, r.err, IF r.err = NoErr THEN Len(heap) + 1 ELSE 0, <<>>)

BuilderElement == \E v \in Values : Start("element", cssSelectorBuilder_element(v), v)
BuilderId == \E v \in Values : Start("id", cssSelectorBuilder_id(v), v)
BuilderClass == \E v \in Values : Start("class", cssSelectorBuilder_class(v), v)
BuilderAttr == \E v \in Values : Start("attr", cssSelectorBuilder_attr(v), v)
BuilderPseudoClass ==
  \E v \in Values : Start("pseudoClass", cssSelectorBuilder_pseudoClass(v), v)
BuilderPseudoElement ==
  \E v \in Values : Start("pseudoElement", cssSelectorBuilder_pseudoElement(v), v)

BuilderCombine ==
  \E l \in Frags, r \in Frags, c \in Combinators :
    /\ Len(heap) < MaxFrags
    /\ heap' = Append(heap, cssSelectorBuilder_combine(heap[l], c, heap[r]))
    /\ hist' = Append(hist, Built(hist[l].segs \o hist[r].segs, 0, TRUE, l, c, r))
    /\ last' = Call("combine", l, r, NoErr, Len(heap) + 1, <<>>)

Element == \E f \in Frags, v \in Values : Chain("element", f, v, CssClass_element(heap[f], v))
Id == \E f \in Frags, v \in Values : Chain("id", f, v, CssClass_id(heap[f], v))
Class == \E f \in Frags, v \in Values : Chain("class", f, v, CssClass_class(heap[f], v))
Attr == \E f \in Frags, v \in Values : Chain("attr", f, v, CssClass_attr(heap[f], v))
PseudoClass ==
  \E f \in Frags, v \in Values : Chain("pseudoClass", f, v, CssClass_pseudoClass(heap[f], v))
PseudoElement ==
  \E f \in Frags, v \in Values :
    Chain("pseudoElement", f, v, CssClass_pseudoElement(heap[f], v))

\* f.stringify()
Stringify ==
  \E f \in Frags :
    LET r == CssClass_stringify(heap[f]) IN
      /\ last' = Call("stringify", f, 0, NoErr, 0, r.out)
      /\ heap' = [heap EXCEPT ![f] = r.this]
      /\ UNCHANGED hist

Next ==
  \/ BuilderElement \/ BuilderId \/ BuilderClass \/ BuilderAttr
  \/ BuilderPseudoClass \/ BuilderPseudoElement \/ BuilderCombine
  \/ Element \/ Id \/ Class \/ Attr \/ PseudoClass \/ PseudoElement
  \/ Stringify

Spec == Init /\ [][Next]_vars

---------------------------------------------------------------------------
(* What the claims speak of: segment categories and their tokens *)

Cats == <<"element", "id", "class", "attr", "pseudoClass", "pseudoElement">>

\* position of a category in the order tag, id, class, attribute,
\* pseudo-class, pseudo-element
Rank(cat) == CHOOSE k \in 1..6 : Cats[k] = cat

\* the token of one segment
Token(seg) ==
  CASE seg.cat = "element" -> seg.val
    [] seg.cat = "id" -> <<"#">> \o seg.val
    [] seg.cat = "class" -> <<".">> \o seg.val
    [] seg.cat = "attr" -> <<"[">> \o seg.val \o <<"]">>
    [] seg.cat = "pseudoClass" -> <<":">> \o seg.val
    [] seg.cat = "pseudoElement" -> <<":", ":">> \o seg.val

\* the tokens of a chain, concatenated in call order
RECURSIVE Render(_)
Render(segs) ==
  IF segs = <<>> THEN <<>>
  ELSE Render(SubSeq(segs, 1, Len(segs) - 1)) \o Token(segs[Len(segs)])

HasCat(segs, cat) == \E k \in 1..Len(segs) : segs[k].cat = cat
HasAny(segs, cats) == \E k \in 1..Len(segs) : segs[k].cat \in cats
Count(segs, cat) == Cardinality({k \in 1..Len(segs) : segs[k].cat = cat})

\* a fragment built by a starter and chained appends alone
Plain(i) == ~hist[i].comb

\* the last call was a chained <op> on an existing fragment
Chained(op) == last.op = op /\ last.target # 0

ChainOps == {"element", "id", "class", "attr", "pseudoClass", "pseudoElement"}

---------------------------------------------------------------------------
\* C1: in every fragment built by a starter and successful appends, the
\* categories of the segments are non-decreasing in call order: no append of
\* an earlier category succeeded after a later-category segment.
C1_OrderingSound ==
  \A i \in Frags :
    Plain(i) =>
      \A j, k \in 1..Len(hist[i].segs) :
        j < k => Rank(hist[i].segs[j].cat) <= Rank(hist[i].segs[k].cat)

\* a three-segment chain of rising categories exists and an append of an
\* earlier category on it has just been refused
C1_Witness ==
  /\ last.target # 0 /\ last.err # NoErr /\ last.op \in ChainOps
  /\ Plain(last.target)
  /\ LET s == hist[last.target].segs IN
       /\ Len(s) = 3
       /\ Rank(s[1].cat) < Rank(s[2].cat) /\ Rank(s[2].cat) < Rank(s[3].cat)
       /\ Rank(last.op) < Rank(s[3].cat)

\* C2: a tag append on a chain that began with the element starter fails with
\* the duplicate error, whatever was appended in between: every such
\* fragment still carries the flag.
C2_SecondTagDuplicate ==
  /\ \A i \in Frags :
       (Plain(i) /\ HasCat(hist[i].segs, "element")) =>
         /\ heap[i].elem
         /\ \A v \in Values : CssClass_element(heap[i], v).err = Err1
  /\ (Chained("element") /\ Plain(last.target)
        /\ HasCat(hist[last.target].segs, "element")) => last.err = Err1

\* a second tag was refused as a duplicate on a chain element, X, Y
C2_Witness ==
  /\ Chained("element") /\ last.err = Err1 /\ Plain(last.target)
  /\ LET s == hist[last.target].segs IN
       Len(s) = 3 /\ s[1].cat = "element" /\ s[2].cat # s[3].cat

\* C3 (as stated): an id append fails with the duplicate error when the
\* chain holds an id segment, with the order error when it holds none but
\* holds a class, attribute, pseudo-class or pseudo-element segment, and
\* succeeds otherwise; no chain holds two id segments.
C3_IdAppend ==
  /\ (Chained("id") /\ Plain(last.target)) =>
       LET s == hist[last.target].segs IN
         last.err = IF HasCat(s, "id") THEN Err1
                    ELSE IF HasAny(s, {"class", "attr", "pseudoClass", "pseudoElement"})
                         THEN Err2
                    ELSE NoErr
  /\ \A i \in Frags : Plain(i) => Count(hist[i].segs, "id") <= 1

\* C4 (as stated): a pseudoElement append fails with the duplicate error
\* exactly when the chain holds a pseudo-element segment and succeeds
\* otherwise; no chain holds two pseudo-element segments; once one is
\* present every further append fails.
C4_PseudoElementAppend ==
  /\ (Chained("pseudoElement") /\ Plain(last.target)) =>
       last.err = IF HasCat(hist[last.target].segs, "pseudoElement")
                  THEN Err1 ELSE NoErr
  /\ \A i \in Frags : Plain(i) => Count(hist[i].segs, "pseudoElement") <= 1
  /\ (last.target # 0 /\ last.op \in ChainOps /\ Plain(last.target)
        /\ HasCat(hist[last.target].segs, "pseudoElement")) => last.err # NoErr

\* C5: class after an attribute, pseudo-class or pseudo-element segment, attr
\* after a pseudo-class or pseudo-element segment, and pseudoClass after a
\* pseudo-element segment each fail, and with the order error.
C5_OrderError ==
  /\ \A i \in Frags, v \in Values :
       LET s == hist[i].segs IN
         /\ HasAny(s, {"attr", "pseudoClass", "pseudoElement"}) =>
              CssClass_class(heap[i], v).err = Err2
         /\ HasAny(s, {"pseudoClass", "pseudoElement"}) =>
              CssClass_attr(heap[i], v).err = Err2
         /\ HasCat(s, "pseudoElement") =>
              CssClass_pseudoClass(heap[i], v).err = Err2
  /\ last.target # 0 =>
       LET s == hist[last.target].segs IN
         /\ (last.op = "class" /\ HasAny(s, {"attr", "pseudoClass", "pseudoElement"}))
              => last.err = Err2
         /\ (last.op = "attr" /\ HasAny(s, {"pseudoClass", "pseudoElement"}))
              => last.err = Err2
         /\ (last.op = "pseudoClass" /\ HasCat(s, "pseudoElement"))
              => last.err = Err2

\* a class append was refused with the order error on a chain whose only
\* later-category segment is a pseudo-class with a plain name
C5_Witness ==
  /\ Chained("class") /\ last.err = Err2 /\ Plain(last.target)
  /\ LET s == hist[last.target].segs IN
       /\ Len(s) = 2 /\ s[1].cat = "id" /\ s[2].cat = "pseudoClass"
       /\ s[1].val = <<"a">> /\ s[2].val = <<"a">>

\* the text a fragment's own construction calls for: a starter's token, the
\* receiver's text followed by the appended token, or the operands' texts
\* around the combinator
RECURSIVE Text(_)
Text(i) ==
  IF hist[i].parent # 0
  THEN Text(hist[i].parent) \o Token(hist[i].segs[Len(hist[i].segs)])
  ELSE IF hist[i].left # 0
  THEN Text(hist[i].left) \o <<" ">> \o hist[i].op \o <<" ">> \o Text(hist[i].right)
  ELSE Token(hist[i].segs[1])

\* the flag a fragment's own construction calls for
RECURSIVE Flag(_)
Flag(i) ==
  IF hist[i].parent # 0 THEN Flag(hist[i].parent)
  ELSE hist[i].left = 0 /\ hist[i].segs[1].cat = "element"

\* the step is a chained call that returned
AppendStep ==
  /\ last'.target # 0 /\ last'.op \in ChainOps /\ last'.err = NoErr
  /\ heap' # heap

\* C6: a successful append returns a new fragment and leaves every existing
\* fragment's text and flag as they were; whatever is built from a fragment,
\* it keeps the text and flag it was built with.
C6_Immutable ==
  /\ [](\A i \in Frags : heap[i] = CssClass(Text(i), Flag(i)))
  /\ [][AppendStep =>
          /\ Len(heap') = Len(heap) + 1
          /\ last'.ret = Len(heap') /\ last'.ret # last'.target
          /\ \A i \in Frags : heap'[i] = heap[i]]_vars

\* two different branches have been extended from the same fragment
C6_Witness ==
  /\ last.target # 0 /\ last.err = NoErr /\ last.op \in ChainOps
  /\ \E j \in Frags :
       /\ j # last.ret
       /\ hist[j].parent = last.target /\ hist[last.ret].parent = last.target
       /\ stringify(heap[j]) # stringify(heap[last.ret])
       /\ stringify(heap[last.target]) = Text(last.target)

\* C7: a call that throws produces no fragment and leaves every fragment as
\* it was: each still holds the text and flag it was built with, so that a
\* later call on the receiver has the outcome it would have had without the
\* failed call (the outcome of a call depends on the receiver's text and flag
\* alone).
C7_FailureAtomic ==
  [][last'.err # NoErr =>
       /\ heap' = heap
       /\ hist' = hist
       /\ last'.ret = 0
       /\ \A i \in Frags : heap'[i] = CssClass(Text(i), Flag(i))]_vars

\* a class append has just been refused on a fragment on which a
\* pseudoClass append is valid and there is room to make it
C7_Witness ==
  /\ Chained("class") /\ last.err = Err2
  /\ Len(heap) < MaxFrags
  /\ \E v \in Values : CssClass_pseudoClass(heap[last.target], v).err = NoErr
  /\ heap[last.target] = CssClass(Text(last.target), Flag(last.target))

\* C8: the text of a chain is the concatenation of its segments' tokens in
\* call order, with nothing between them.
C8_Rendered ==
  \A i \in Frags : Plain(i) => stringify(heap[i]) = Render(hist[i].segs)

\* id a, class a, class a renders '#a.a.a'
C8_Witness ==
  /\ Chained("class") /\ last.err = NoErr
  /\ hist[last.ret].segs = <<Seg("id", <<"a">>), Seg("class", <<"a">>), Seg("class", <<"a">>)>>
  /\ stringify(heap[last.ret]) = <<"#", "a", ".", "a", ".", "a">>

\* the step is a call of combine
CombineStep == last'.op = "combine" /\ heap' # heap

\* C9: the result of combine renders as the left rendering, a space, the
\* combinator, a space, the right rendering, also for the descendant
\* combinator (three spaces) and for operands that are themselves results of
\* combine; combine leaves its operands as they were.
C9_Combine ==
  /\ [](\A i \in Frags :
          hist[i].left # 0 =>
            /\ stringify(heap[i]) =
                 Text(hist[i].left) \o <<" ">> \o hist[i].op \o <<" ">> \o Text(hist[i].right)
            /\ hist[i].op = <<" ">> =>
                 stringify(heap[i]) =
                   stringify(heap[hist[i].left]) \o <<" ", " ", " ">>
                     \o stringify(heap[hist[i].right]))
  /\ [][CombineStep =>
          /\ last'.ret = Len(heap) + 1
          /\ \A i \in Frags : heap'[i] = heap[i]]_vars

\* a descendant combine whose left operand is itself the result of combine
C9_Witness ==
  /\ last.op = "combine" /\ last.ret # 0
  /\ hist[last.ret].op = <<" ">>
  /\ hist[last.target].left # 0
  /\ includes(stringify(heap[last.ret]), <<" ", " ", " ">>)

\* a validator that keeps the categories appended so far
RefVerdict(segs, op) ==
  CASE op = "id" ->
         IF HasCat(segs, "id") THEN Err1
         ELSE IF HasAny(segs, {"class", "attr", "pseudoClass", "pseudoElement"})
              THEN Err2 ELSE NoErr
    [] op = "class" ->
         IF HasAny(segs, {"attr", "pseudoClass", "pseudoElement"}) THEN Err2 ELSE NoErr
    [] op = "attr" ->
         IF HasAny(segs, {"pseudoClass", "pseudoElement"}) THEN Err2 ELSE NoErr
    [] op = "pseudoClass" ->
         IF HasCat(segs, "pseudoElement") THEN Err2 ELSE NoErr
    [] op = "pseudoElement" ->
         IF HasCat(segs, "pseudoElement") THEN Err1 ELSE NoErr

\* C10 (as stated): on every chain and for every segment value, an id, class,
\* attr, pseudoClass or pseudoElement append is accepted or refused, and with
\* the same error, as by the validator that keeps the categories.
C10_CategoriesOnly ==
  (last.target # 0 /\ last.op \in ChainOps \ {"element"} /\ Plain(last.target)) =>
       last.err = RefVerdict(hist[last.target].segs, last.op)

\* C11 (as stated): the flag of a fragment is set exactly when its chain holds
\* a tag-name or a pseudo-element segment, and a tag append on a fragment
\* that holds a pseudo-element segment fails with the duplicate error.
C11_FlagTagOrPseudoElement ==
  /\ \A i \in Frags :
       Plain(i) => (heap[i].elem <=> HasAny(hist[i].segs, {"element", "pseudoElement"}))
  /\ (Chained("element") /\ Plain(last.target)
        /\ HasCat(hist[last.target].segs, "pseudoElement")) => last.err = Err1

\* C11 (amended): the flag of a chain is set exactly when the chain holds a
\* tag-name segment, that is when it began with the element starter; a
\* pseudo-element segment does not set it.  A tag append on a chain that
\* holds a pseudo-element segment fails with the duplicate error when the
\* chain also holds a tag and with the order error when it holds none.
C11_FlagTagOnly ==
  /\ \A i \in Frags :
       Plain(i) =>
         /\ heap[i].elem <=> HasCat(hist[i].segs, "element")
         /\ heap[i].elem <=> hist[i].segs[1].cat = "element"
  /\ (Chained("element") /\ Plain(last.target)
        /\ HasCat(hist[last.target].segs, "pseudoElement")) =>
       last.err = IF HasCat(hist[last.target].segs, "element") THEN Err1 ELSE Err2

\* a tag append has been refused with the order error on a chain begun with
\* the pseudoElement starter
C11_Witness ==
  /\ Chained("element") /\ last.err = Err2 /\ Plain(last.target)
  /\ hist[last.target].segs[1].cat = "pseudoElement"
  /\ ~heap[last.target].elem

\* C12: stringify returns the text the fragment was built with, whatever was
\* chained from the fragment or combined with it before the call, and a call
\* of stringify leaves every fragment as it was.
C12_StringifyPure ==
  /\ last.op = "stringify" => last.out = Text(last.target)
  /\ \A i \in Frags :
       /\ CssClass_stringify(heap[i]).this = heap[i]
       /\ CssClass_stringify(heap[i]).out = Text(i)
       /\ heap[i] = CssClass(Text(i), Flag(i))

\* stringify has been called on a fragment that was appended to and used as
\* an operand of combine
C12_Witness ==
  /\ last.op = "stringify"
  /\ \E j \in Frags : hist[j].parent = last.target
  /\ \E k \in Frags : hist[k].left = last.target \/ hist[k].right = last.target
  /\ last.out = stringify(heap[last.target])

\* C14: where both checks of element or id would fail, the duplicate error is
\* the one reported; a call that fails returns no fragment and has not
\* touched its receiver.
C14_DuplicateFirst ==
  /\ (Chained("element") /\ heap[last.target].elem /\ Truthy(heap[last.target].value))
       => last.err = Err1
  /\ (Chained("id") /\ HasCat(hist[last.target].segs, "id")
        /\ HasAny(hist[last.target].segs, {"class", "attr", "pseudoClass", "pseudoElement"}))
       => last.err = Err1
  /\ last.err # NoErr => last.ret = 0
  /\ \A i \in Frags, v \in Values :
       /\ CssClass_element(heap[i], v).err # NoErr =>
            CssClass_element(heap[i], v) = Throw(heap[i], CssClass_element(heap[i], v).err)
       /\ CssClass_id(heap[i], v).err # NoErr =>
            CssClass_id(heap[i], v) = Throw(heap[i], CssClass_id(heap[i], v).err)

\* an id append has been refused as a duplicate on a chain that holds an id
\* and a class segment
C14_Witness ==
  /\ Chained("id") /\ last.err = Err1 /\ Plain(last.target)
  /\ hist[last.target].segs = <<Seg("id", <<"a">>), Seg("class", <<"a">>)>>

\* C15: the element append succeeds on no fragment: it fails with the
\* duplicate error on a fragment whose flag is set and with the order error
\* on any other, whose text is never empty.  A tag segment is therefore
\* never the segment a chained call appended.
C15_ElementNeverAppends ==
  /\ \A i \in Frags :
       /\ ~heap[i].elem => Truthy(heap[i].value)
       /\ \A v \in Values :
            CssClass_element(heap[i], v).err = IF Flag(i) THEN Err1 ELSE Err2
       /\ hist[i].parent # 0 => hist[i].segs[Len(hist[i].segs)].cat # "element"
       /\ Plain(i) => \A k \in 2..Len(hist[i].segs) : hist[i].segs[k].cat # "element"
  /\ Chained("element") =>
       /\ last.err = IF Flag(last.target) THEN Err1 ELSE Err2
       /\ last.ret = 0

\* the element append has been refused on a fragment begun with the id
\* starter and on it the order error was reported
C15_Witness ==
  /\ Chained("element") /\ last.err = Err2
  /\ hist[last.target].segs[1].cat = "id"
  /\ \E i \in Frags : Flag(i) /\ Len(hist[i].segs) > 1

\* C16: a fragment returned by combine has its flag cleared, and so has every
\* fragment chained from it; an id append on it fails with the duplicate
\* error when either operand holds an id segment, a pseudoElement append
\* fails with the duplicate error when either operand holds a pseudo-element
\* segment, and an element append fails with the order error.
C16_CombineResult ==
  /\ \A i \in Frags :
       hist[i].comb =>
         /\ ~heap[i].elem
         /\ \A v \in Values :
              /\ CssClass_element(heap[i], v).err = Err2
              /\ HasCat(hist[i].segs, "id") => CssClass_id(heap[i], v).err = Err1
              /\ HasCat(hist[i].segs, "pseudoElement") =>
                   CssClass_pseudoElement(heap[i], v).err = Err1
  /\ \A i \in Frags :
       hist[i].left # 0 =>
         hist[i].segs = hist[hist[i].left].segs \o hist[hist[i].right].segs
  /\ (last.target # 0 /\ last.op \in ChainOps /\ hist[last.target].comb) =>
       LET s == hist[last.target].segs IN
         /\ last.op = "element" => last.err = Err2
         /\ (last.op = "id" /\ HasCat(s, "id")) => last.err = Err1
         /\ (last.op = "pseudoElement" /\ HasCat(s, "pseudoElement")) => last.err = Err1

\* an id append has been refused as a duplicate on the result of combining
\* two fragments begun with the element starter, of which only the left one
\* holds an id segment
C16_Witness ==
  /\ Chained("id") /\ last.err = Err1
  /\ hist[last.target].left # 0
  /\ LET l == hist[last.target].left
         r == hist[last.target].right IN
       /\ heap[l].elem /\ heap[r].elem /\ ~heap[last.target].elem
       /\ HasCat(hist[l].segs, "id") /\ ~HasCat(hist[r].segs, "id")
       /\ \A k \in 1..Len(hist[l].segs) : hist[l].segs[k].val = <<"a">>

---------------------------------------------------------------------------
(* getJSON and fromJSON                                                     *)
(*                                                                         *)
(* A program that serialises plain objects and reads them back.  Here the  *)
(* heap holds plain objects [props, proto], props the own properties in    *)
(* their order; hist tells which object's text an object was read from and *)
(* with which prototype; last is the latest call of getJSON or fromJSON.   *)

\* a JavaScript primitive: its type, and its number or its characters
JsVal(t, n, s) == [t |-> t, n |-> n, s |-> s]
JsUndefined == JsVal("undefined", 0, <<>>)
JsNull == JsVal("null", 0, <<>>)
JsBool(b) == JsVal("boolean", IF b THEN 1 ELSE 0, <<>>)
JsNum(n) == JsVal("number", n, <<>>)
JsNaN == JsVal("NaN", 0, <<>>)
JsInfinity == JsVal("Infinity", 0, <<>>)
JsNegZero == JsVal("-0", 0, <<>>)
JsStr(s) == JsVal("string", 0, s)

\* the primitives the properties are given
Primitives ==
  { JsUndefined, JsNull, JsBool(TRUE), JsBool(FALSE), JsNum(0), JsNum(-12),
    JsNaN, JsInfinity, JsNegZero, JsStr(<<>>), JsStr(<<"a", "\"", "\\">>) }

\* the property names: a plain one and one that needs escaping
Keys == { <<"a">>, <<"\"", "b">> }

\* the prototypes handed to fromJSON
Protos == { "Circle.prototype", "Rectangle.prototype" }

ObjectPrototype == "Object.prototype"

Prop(key, val) == [key |-> key, val |-> val]

\* the own properties of the object literals: distinct keys, in any order
PlainProps ==
  {<<>>}
    \cup { <<Prop(k, v)>> : k \in Keys, v \in Primitives }
    \cup UNION { { <<Prop(k1, v1), Prop(k2, v2)>> :
                      k2 \in Keys \ {k1}, v1 \in Primitives, v2 \in Primitives } :
                    k1 \in Keys }

PlainObject(props) == [props |-> props, proto |-> ObjectPrototype]

SyntaxError == "SyntaxError"

(* JSON.stringify on an object whose properties hold primitives *)

DigitChars == <<"0", "1", "2", "3", "4", "5", "6", "7", "8", "9">>

RECURSIVE Digits(_)
Digits(n) ==
  IF n < 10 THEN <<DigitChars[n + 1]>>
  ELSE Digits(n \div 10) \o <<DigitChars[(n % 10) + 1]>>

\* Number::toString for an integer
NumberToString(n) == IF n < 0 THEN <<"-">> \o Digits(-n) ELSE Digits(n)

\* QuoteJSONString: the quotation mark and the backslash are escaped
RECURSIVE Escaped(_)
Escaped(s) ==
  IF s = <<>> THEN <<>>
  ELSE (IF Head(s) \in {"\"", "\\"} THEN <<"\\", Head(s)>> ELSE <<Head(s)>>)
         \o Escaped(Tail(s))

Quote(s) == <<"\"">> \o Escaped(s) \o <<"\"">>

\* SerializeJSONProperty: the text of a value; undefined has none
SerializeJSONProperty(v) ==
  CASE v.t = "null" -> <<"n", "u", "l", "l">>
    [] v.t = "boolean" -> IF v.n = 1 THEN <<"t", "r", "u", "e">>
                          ELSE <<"f", "a", "l", "s", "e">>
    [] v.t = "number" -> NumberToString(v.n)
    [] v.t = "-0" -> <<"0">>
    [] v.t \in {"NaN", "Infinity"} -> <<"n", "u", "l", "l">>
    [] v.t = "string" -> Quote(v.s)

\* SerializeJSONObject: the members of the properties whose value is not
\* undefined, separated by commas
RECURSIVE Members(_)
Members(props) ==
  IF props = <<>> THEN <<>>
  ELSE LET rest == Members(Tail(props))
           p == Head(props) IN
       IF p.val.t = "undefined" THEN rest
       ELSE Quote(p.key) \o <<":">> \o SerializeJSONProperty(p.val)
              \o (IF rest = <<>> THEN <<>> ELSE <<",">> \o rest)

JSON_stringify(obj) == <<"{">> \o Members(obj.props) \o <<"}">>

(* JSON.parse, for the texts of objects whose members are strings,         *)
(* integers, true, false and null; any other text is a SyntaxError         *)

Parsed(v, p) == [ok |-> TRUE, v |-> v, p |-> p]
Failed == [ok |-> FALSE, v |-> JsUndefined, p |-> 0]

At(txt, p, c) == p <= Len(txt) /\ txt[p] = c

\* the characters of a string up to its closing quotation mark
RECURSIVE ParseChars(_, _, _)
ParseChars(txt, p, acc) ==
  IF p > Len(txt) THEN Failed
  ELSE IF txt[p] = "\"" THEN Parsed(acc, p + 1)
  ELSE IF txt[p] = "\\"
       THEN IF p + 1 <= Len(txt) /\ txt[p + 1] \in {"\"", "\\"}
            THEN ParseChars(txt, p + 2, Append(acc, txt[p + 1]))
            ELSE Failed
  ELSE ParseChars(txt, p + 1, Append(acc, txt[p]))

ParseString(txt, p) == IF At(txt, p, "\"") THEN ParseChars(txt, p + 1, <<>>) ELSE Failed

IsDigit(txt, p) == p <= Len(txt) /\ \E d \in 1..10 : DigitChars[d] = txt[p]
DigitValue(c) == (CHOOSE d \in 1..10 : DigitChars[d] = c) - 1

RECURSIVE ParseDigits(_, _, _)
ParseDigits(txt, p, acc) ==
  IF IsDigit(txt, p) THEN ParseDigits(txt, p + 1, acc * 10 + DigitValue(txt[p]))
  ELSE Parsed(acc, p)

\* an integer: a minus sign, then 0 or a digit other than 0 and more digits
ParseNumber(txt, p) ==
  LET neg == At(txt, p, "-")
      q == IF neg THEN p + 1 ELSE p
      r == IF At(txt, q, "0") THEN Parsed(0, q + 1) ELSE ParseDigits(txt, q, 0) IN
    IF ~IsDigit(txt, q) THEN Failed
    ELSE IF neg /\ r.v = 0 THEN Parsed(JsNegZero, r.p)
    ELSE Parsed(JsNum(IF neg THEN -r.v ELSE r.v), r.p)

ParseWord(txt, p, word, v) ==
  IF p + Len(word) - 1 <= Len(txt) /\ SubSeq(txt, p, p + Len(word) - 1) = word
  THEN Parsed(v, p + Len(word)) ELSE Failed

ParseValue(txt, p) ==
  IF At(txt, p, "\"")
  THEN LET r == ParseString(txt, p) IN IF r.ok THEN Parsed(JsStr(r.v), r.p) ELSE Failed
  ELSE IF At(txt, p, "t") THEN ParseWord(txt, p, <<"t", "r", "u", "e">>, JsBool(TRUE))
  ELSE IF At(txt, p, "f") THEN ParseWord(txt, p, <<"f", "a", "l", "s", "e">>, JsBool(FALSE))
  ELSE IF At(txt, p, "n") THEN ParseWord(txt, p, <<"n", "u", "l", "l">>, JsNull)
  ELSE ParseNumber(txt, p)

\* CreateDataProperty: a repeated name keeps its place and takes the new value
SetProp(props, key, val) ==
  IF \E k \in 1..Len(props) : props[k].key = key
  THEN [k \in 1..Len(props) |->
          IF props[k].key = key THEN Prop(key, val) ELSE props[k]]
  ELSE Append(props, Prop(key, val))

\* the members after the opening brace or a comma, up to the closing brace
RECURSIVE ParseMembers(_, _, _)
ParseMembers(txt, p, acc) ==
  LET k == ParseString(txt, p) IN
    IF ~k.ok \/ ~At(txt, k.p, ":") THEN Failed
    ELSE LET v == ParseValue(txt, k.p + 1) IN
      IF ~v.ok THEN Failed
      ELSE LET props == SetProp(acc, k.v, v.v) IN
        IF At(txt, v.p, ",") THEN ParseMembers(txt, v.p + 1, props)
        ELSE IF At(txt, v.p, "}") THEN Parsed(props, v.p + 1)
        ELSE Failed

ParseObject(txt, p) ==
  IF ~At(txt, p, "{") THEN Failed
  ELSE IF At(txt, p + 1, "}") THEN Parsed(<<>>, p + 2)
  ELSE ParseMembers(txt, p + 1, <<>>)

\* JSON.parse: the object read, or the SyntaxError thrown
JSON_parse(text) ==
  LET r == ParseObject(text, 1) IN
    IF r.ok /\ r.p = Len(text) + 1
    THEN [err |-> NoErr, obj |-> PlainObject(r.v)]
    ELSE [err |-> SyntaxError, obj |-> PlainObject(<<>>)]

Object_setPrototypeOf(obj, proto) == [obj EXCEPT !.proto = proto]

(* the two functions of the repository *)

getJSON(obj) == JSON_stringify(obj)

\* fromJSON that returns what JSON.parse gave it
fromJSON_NoProto(proto, json) == JSON_parse(json)

fromJSON(proto, json) ==
  LET r == JSON_parse(json) IN
    IF r.err = NoErr
    THEN [err |-> NoErr, obj |-> Object_setPrototypeOf(r.obj, proto)]
    ELSE r

(* the program *)

\* how an object came to be: the object whose text it was read from (0 for
\* an object literal) and the prototype asked for
Read(from, proto) == [from |-> from, proto |-> proto]

\* the record of a call of getJSON or fromJSON: the object serialised, the
\* prototype asked for, the error thrown, the object returned (0: none) and
\* the text returned or passed
JsonCall(op, target, proto, err, ret, out) ==
  [op |-> op, target |-> target, proto |-> proto, err |-> err, ret |-> ret,
   out |-> out]

\* texts that no call of getJSON returns
BadTexts == { <<"{">>, <<"{", "\"", "a", "\"", ":", "}">> }

InitJSON ==
  /\ heap \in { <<PlainObject(ps)>> : ps \in PlainProps }
  /\ hist = <<Read(0, ObjectPrototype)>>
  /\ last = JsonCall("none", 0, ObjectPrototype, NoErr, 0, <<>>)

\* getJSON(obj)
GetJSON ==
  \E i \in Frags :
    /\ last' = JsonCall("getJSON", i, ObjectPrototype, NoErr, 0, getJSON(heap[i]))
    /\ UNCHANGED <<heap, hist>>

\* fromJSON(proto, json), json the text getJSON has just returned
FromJSON ==
  \E proto \in Protos :
    /\ last.op = "getJSON"
    /\ Len(heap) < MaxFrags
    /\ LET r == fromJSON(proto, last.out) IN
         /\ heap' = IF r.err = NoErr THEN Append(heap, r.obj) ELSE heap
         /\ hist' = IF r.err = NoErr THEN Append(hist, Read(last.target, proto)) ELSE hist
         /\ last' = JsonCall("fromJSON", last.target, proto, r.err,
                             IF r.err = NoErr THEN Len(heap) + 1 ELSE 0, last.out)

\* fromJSON(proto, json), json a text that is no JSON
FromBadJSON ==
  \E proto \in Protos, text \in BadTexts :
    LET r == fromJSON(proto, text) IN
      /\ heap' = IF r.err = NoErr THEN Append(heap, r.obj) ELSE heap
      /\ hist' = IF r.err = NoErr THEN Append(hist, Read(0, proto)) ELSE hist
      /\ last' = JsonCall("fromJSON", 0, proto, r.err,
                          IF r.err = NoErr THEN Len(heap) + 1 ELSE 0, text)

NextJSON == GetJSON \/ FromJSON \/ FromBadJSON

SpecJSON == InitJSON /\ [][NextJSON]_vars

\* the names and values of an object's own properties
Attributes(obj) == { <<obj.props[k].key, obj.props[k].val>> : k \in 1..Len(obj.props) }

\* every value is a string, a boolean, null or a finite number other than -0
Representable(obj) ==
  \A k \in 1..Len(obj.props) :
    obj.props[k].val.t \in {"string", "boolean", "null", "number"}

=============================================================================
